---- MODULE Spec2Model ----
(***************************************************************************)
(* Model of three parts of cubecl:                                         *)
(*  - the tiling-2D matmul launch planner                                  *)
(*      crates/cubecl-linalg/src/matmul/kernels/tiling2d/launch.rs         *)
(*  - the constant constructors of Elem                                    *)
(*      crates/cubecl-core/src/ir/shader.rs                                *)
(*  - the Debug rendering of ConvLaunchError and its conversion to         *)
(*    AutotuneError   crates/cubecl-linalg/src/convolution/error.rs        *)
(* The planner is modelled as one process per call, one action per step of *)
(* matmul_tiling_2d_ref / matmul_tiling_2d_ref_no_check, all calls sharing *)
(* one device (the compute client).                                        *)
(***************************************************************************)
EXTENDS Integers, Sequences, FiniteSets, TLC

VARIABLES
    pc,       \* planner: position of each call
    inp,      \* planner: the arguments of each call (lhs, rhs, out, config, N)
    loc,      \* planner: the local variables of each call
    result,   \* planner: how each call ended
    calls,    \* planner: number of collaborator calls each call has made
    dev,      \* the device behind the compute client: buffers and dispatches
    elem,     \* shader.rs: the Elem a constant is built from
    host,     \* shader.rs: the host scalar handed to constant_from_*
    constant, \* shader.rs: the ConstantScalarValue returned
    errs,     \* error.rs: a pair of ConvLaunchError values
    reports   \* error.rs: the AutotuneError each of the pair converted into

vars == <<pc, inp, loc, result, calls, dev, elem, host, constant, errs, reports>>
plannerVars == <<pc, inp, loc, result, calls, dev>>
elemVars == <<elem, host, constant>>
errVars == <<errs, reports>>

(***************************************************************************)
(* Bounds of the model                                                     *)
(***************************************************************************)
MaxDim == 4        \* m and n range over 1..MaxDim
MaxRank == 4       \* tensor ranks range over 2..MaxRank
KDim == 3          \* the shared dimension k
MaxBatch == 2      \* every batch axis has length 1 or MaxBatch

Procs == {1, 2}

Max(a, b) == IF a >= b THEN a ELSE b

RECURSIVE Product(_, _)
\* product of s[i..Len(s)]
Product(s, i) == IF i > Len(s) THEN 1 ELSE s[i] * Product(s, i + 1)

(***************************************************************************)
(* Hardware properties reported by the client (stubbed)                    *)
(***************************************************************************)
max_shared_memory_size == 32
max_cube_count == <<1, 1, 2>>

(***************************************************************************)
(* Tensors and layouts                                                     *)
(***************************************************************************)
CallerHandle(p, i) == [space |-> "caller", id |-> 3 * (p - 1) + i]
DeviceHandle(i) == [space |-> "device", id |-> i]

\* strides of the row-major layout of a shape
contiguous_strides(shape) == [i \in 1..Len(shape) |-> Product(shape, i + 1)]

Contiguous == [kind |-> "Contiguous", transposed |-> FALSE, batch_swap |-> FALSE]
HighlyPermuted == [kind |-> "HighlyPermuted", transposed |-> FALSE, batch_swap |-> FALSE]
MildlyPermuted(t, b) == [kind |-> "MildlyPermuted", transposed |-> t, batch_swap |-> b]

RECURSIVE BatchScan(_, _, _, _)
\* the loop of matrix_layout over the batch axes, innermost first: d is the
\* 1-based index of the axis looked at, prev the stride seen before it.
\* Returns "highly", "swap" or "plain".
BatchScan(strides, d, prev, swapped) ==
    LET rank == Len(strides)
        row == strides[rank - 1]
        col == strides[rank]
    IN  IF d < 1 THEN (IF swapped THEN "swap" ELSE "plain")
        ELSE IF strides[d] < row \/ strides[d] < col THEN "highly"
        ELSE BatchScan(strides, d - 1, strides[d], swapped \/ strides[d] < prev)

\* the layout classifier consumed by the planner
matrix_layout(strides) ==
    LET rank == Len(strides)
    IN  IF rank <= 1 THEN Contiguous
        ELSE LET row == strides[rank - 1]
                 col == strides[rank]
                 transposed == row < col
                 scan == BatchScan(strides, rank - 2, row, FALSE)
             IN  IF row = 0 \/ col = 0 THEN HighlyPermuted
                 ELSE IF scan = "highly" THEN HighlyPermuted
                 ELSE IF transposed \/ scan = "swap"
                      THEN MildlyPermuted(transposed, scan = "swap")
                      ELSE Contiguous

Swap(s, i, j) == [x \in 1..Len(s) |-> IF x = i THEN s[j] ELSE IF x = j THEN s[i] ELSE s[x]]

\* the stride patterns a caller hands in, as permutations of the row-major strides
Variants(rank) ==
    {"contiguous", "transposed", "broadcast"}
        \cup (IF rank >= 3 THEN {"permuted"} ELSE {})
        \cup (IF rank >= 4 THEN {"batch_swap", "transposed_batch_swap"} ELSE {})

StridesOf(shape, variant) ==
    LET rank == Len(shape)
        c == contiguous_strides(shape)
    IN  CASE variant = "contiguous" -> c
          [] variant = "transposed" -> Swap(c, rank - 1, rank)
          [] variant = "broadcast" -> [c EXCEPT ![rank - 1] = 0]
          [] variant = "permuted" -> Swap(c, 1, rank)
          [] variant = "batch_swap" -> Swap(c, rank - 3, rank - 2)
          [] variant = "transposed_batch_swap" ->
                Swap(Swap(c, rank - 3, rank - 2), rank - 1, rank)

MatShape(rank, b, rows, cols) ==
    [i \in 1..rank |-> IF i = rank THEN cols ELSE IF i = rank - 1 THEN rows ELSE b]

Tensor(handle, shape, strides) == [handle |-> handle, shape |-> shape, strides |-> strides]

MkInput(p, rl, rr, b, m, n, vl, vr, bm, bn, bk, esize) ==
    [ lhs |-> Tensor(CallerHandle(p, 1), MatShape(rl, b, m, KDim),
                     StridesOf(MatShape(rl, b, m, KDim), vl)),
      rhs |-> Tensor(CallerHandle(p, 2), MatShape(rr, b, KDim, n),
                     StridesOf(MatShape(rr, b, KDim, n), vr)),
      out |-> Tensor(CallerHandle(p, 3), MatShape(rl, b, m, n),
                     contiguous_strides(MatShape(rl, b, m, n))),
      config |-> [block_size_m |-> bm, block_size_n |-> bn, block_size_k |-> bk],
      elem_size |-> esize ]

Ranks == 2..MaxRank

\* the arguments of one of two concurrent calls: equal ranks, fewer shapes
ConcInputs ==
    [ m : {2, 3}, n : {2, 4}, vl : Variants(3), vr : {"contiguous", "permuted"},
      esize : {2, 4} ]

MkConcInput(p, c) == MkInput(p, 3, 3, MaxBatch, c.m, c.n, c.vl, c.vr, 2, 4, 4, c.esize)
BlockSizes == {2, 4}
ElemSizes == {2, 4}

(***************************************************************************)
(* Collaborators of the planner                                            *)
(***************************************************************************)
\* into_contiguous: allocates a fresh device buffer and copies the tensor
\* into it in row-major order; by is the call it is made for
into_contiguous(d, tensor, by) ==
    LET fresh == Tensor(DeviceHandle(d.next_buf), tensor.shape,
                        contiguous_strides(tensor.shape))
    IN  [ dev |-> [d EXCEPT !.next_buf = @ + 1,
                            !.allocs = @ \cup {[handle |-> fresh.handle, by |-> by,
                                                from |-> tensor.handle,
                                                shape |-> tensor.shape]}],
          tensor |-> fresh ]

CeilDiv(a, b) == (a + b - 1) \div b

Static(x, y, z) == [kind |-> "Static", x |-> x, y |-> y, z |-> z]
NoCubeCount == [kind |-> "none", x |-> 0, y |-> 0, z |-> 0]

\* tiling2d_cube_count: one cube per block of the output matrix and per batch
tiling2d_cube_count(out_shape, config) ==
    LET rank == Len(out_shape)
    IN  Static(CeilDiv(out_shape[rank - 1], config.block_size_m),
               CeilDiv(out_shape[rank], config.block_size_n),
               Product(SubSeq(out_shape, 1, rank - 2), 1))

\* CubeTiling2dConfig::new
CubeTiling2dConfig(config, m, k, n, lhs_transposed, rhs_transposed) ==
    [ block_size_m |-> config.block_size_m, block_size_n |-> config.block_size_n,
      block_size_k |-> config.block_size_k, m |-> m, k |-> k, n |-> n,
      lhs_transposed |-> lhs_transposed, rhs_transposed |-> rhs_transposed ]

\* TensorArg::from_raw_parts
TensorArg(tensor, vectorization) ==
    [ handle |-> tensor.handle, strides |-> tensor.strides, shape |-> tensor.shape,
      vectorization |-> vectorization ]

(***************************************************************************)
(* matmul_tiling_2d_ref                                                    *)
(***************************************************************************)
NoResult == [kind |-> "none", why |-> "", cube_count |-> NoCubeCount]
Panic(why) == [kind |-> "panic", why |-> why, cube_count |-> NoCubeCount]
Ok == [kind |-> "Ok", why |-> "", cube_count |-> NoCubeCount]
\* Err(MatmulLaunchError::Unavailable(MatmulAvailabilityError::CubeCountTooBig(grid)))
ErrCubeCountTooBig(grid) == [kind |-> "Err", why |-> "CubeCountTooBig", cube_count |-> grid]

\* faulty variant: the assertion forgets block_size_n
SharedMemoryFits_m_only(size, config) ==
    size * config.block_size_k * config.block_size_m <= max_shared_memory_size

\* the condition of the assert! that opens matmul_tiling_2d_ref
SharedMemoryFits(size, config) ==
    size * config.block_size_k * Max(config.block_size_m, config.block_size_n)
        <= max_shared_memory_size

\* the first check_layout closure: is the tensor usable as it is
correct_layout(tensor) ==
    LET layout == matrix_layout(tensor.strides)
    IN  CASE layout.kind = "Contiguous" -> TRUE
          [] layout.kind = "MildlyPermuted" -> TRUE
          [] layout.kind = "HighlyPermuted" -> FALSE

\* faulty variant: the two mixed arms copy the wrong operand
RepairPlan_swapped(lhs_correct_layout, rhs_correct_layout) ==
    CASE lhs_correct_layout /\ rhs_correct_layout -> [lhs |-> "keep", rhs |-> "keep"]
      [] lhs_correct_layout /\ ~rhs_correct_layout -> [lhs |-> "copy", rhs |-> "keep"]
      [] ~lhs_correct_layout /\ rhs_correct_layout -> [lhs |-> "keep", rhs |-> "copy"]
      [] ~lhs_correct_layout /\ ~rhs_correct_layout -> [lhs |-> "copy", rhs |-> "copy"]

\* faulty variant: the last arm hands rhs on as it is
RepairPlan_rhs_forgotten(lhs_correct_layout, rhs_correct_layout) ==
    CASE lhs_correct_layout /\ rhs_correct_layout -> [lhs |-> "keep", rhs |-> "keep"]
      [] lhs_correct_layout /\ ~rhs_correct_layout -> [lhs |-> "keep", rhs |-> "copy"]
      [] ~lhs_correct_layout /\ rhs_correct_layout -> [lhs |-> "copy", rhs |-> "keep"]
      [] ~lhs_correct_layout /\ ~rhs_correct_layout -> [lhs |-> "copy", rhs |-> "keep"]

\* the match on (lhs_correct_layout, rhs_correct_layout): which operands
\* are handed on through into_contiguous
RepairPlan(lhs_correct_layout, rhs_correct_layout) ==
    CASE lhs_correct_layout /\ rhs_correct_layout -> [lhs |-> "keep", rhs |-> "keep"]
      [] lhs_correct_layout /\ ~rhs_correct_layout -> [lhs |-> "keep", rhs |-> "copy"]
      [] ~lhs_correct_layout /\ rhs_correct_layout -> [lhs |-> "copy", rhs |-> "keep"]
      [] ~lhs_correct_layout /\ ~rhs_correct_layout -> [lhs |-> "copy", rhs |-> "copy"]

Finish(p, r) ==
    /\ pc' = [pc EXCEPT ![p] = "done"]
    /\ result' = [result EXCEPT ![p] = r]

CheckSharedMemory(p) ==
    /\ pc[p] = "assert"
    /\ IF SharedMemoryFits(inp[p].elem_size, inp[p].config)
       THEN pc' = [pc EXCEPT ![p] = "classify"] /\ UNCHANGED result
       ELSE Finish(p, Panic("Shared memory limit will be busted. "))
    /\ UNCHANGED <<inp, loc, calls, dev>>
    /\ UNCHANGED <<elemVars, errVars>>

ClassifyLayouts(p) ==
    /\ pc[p] = "classify"
    /\ loc' = [loc EXCEPT ![p].lhs_correct_layout = correct_layout(inp[p].lhs),
                          ![p].rhs_correct_layout = correct_layout(inp[p].rhs)]
    /\ calls' = [calls EXCEPT ![p].matrix_layout = @ + 2]
    /\ pc' = [pc EXCEPT ![p] = "repair_lhs"]
    /\ UNCHANGED <<inp, result, dev>>
    /\ UNCHANGED <<elemVars, errVars>>

\* faulty variant: the planner pools normalized buffers by shape across calls
RepairLhs_pooled(p) ==
    /\ pc[p] = "repair_lhs"
    /\ IF RepairPlan(loc[p].lhs_correct_layout, loc[p].rhs_correct_layout).lhs = "copy"
       THEN IF \E a \in dev.allocs : a.shape = inp[p].lhs.shape
            THEN LET a == CHOOSE a \in dev.allocs : a.shape = inp[p].lhs.shape
                 IN  /\ loc' = [loc EXCEPT ![p].lhs =
                                    Tensor(a.handle, a.shape, contiguous_strides(a.shape))]
                     /\ calls' = [calls EXCEPT ![p].into_contiguous = @ + 1]
                     /\ UNCHANGED dev
            ELSE LET r == into_contiguous(dev, inp[p].lhs, p)
                 IN  /\ dev' = r.dev
                     /\ loc' = [loc EXCEPT ![p].lhs = r.tensor]
                     /\ calls' = [calls EXCEPT ![p].into_contiguous = @ + 1]
       ELSE /\ loc' = [loc EXCEPT ![p].lhs = inp[p].lhs]
            /\ UNCHANGED <<dev, calls>>
    /\ pc' = [pc EXCEPT ![p] = "repair_rhs"]
    /\ UNCHANGED <<inp, result>>
    /\ UNCHANGED <<elemVars, errVars>>

\* the lhs argument of the chosen arm
RepairLhs(p) ==
    /\ pc[p] = "repair_lhs"
    /\ IF RepairPlan(loc[p].lhs_correct_layout, loc[p].rhs_correct_layout).lhs = "copy"
       THEN LET r == into_contiguous(dev, inp[p].lhs, p)
            IN  /\ dev' = r.dev
                /\ loc' = [loc EXCEPT ![p].lhs = r.tensor]
                /\ calls' = [calls EXCEPT ![p].into_contiguous = @ + 1]
       ELSE /\ loc' = [loc EXCEPT ![p].lhs = inp[p].lhs]
            /\ UNCHANGED <<dev, calls>>
    /\ pc' = [pc EXCEPT ![p] = "repair_rhs"]
    /\ UNCHANGED <<inp, result>>
    /\ UNCHANGED <<elemVars, errVars>>

\* the rhs argument of the chosen arm, evaluated after the lhs argument
RepairRhs(p) ==
    /\ pc[p] = "repair_rhs"
    /\ IF RepairPlan(loc[p].lhs_correct_layout, loc[p].rhs_correct_layout).rhs = "copy"
       THEN LET r == into_contiguous(dev, inp[p].rhs, p)
            IN  /\ dev' = r.dev
                /\ loc' = [loc EXCEPT ![p].rhs = r.tensor]
                /\ calls' = [calls EXCEPT ![p].into_contiguous = @ + 1]
       ELSE /\ loc' = [loc EXCEPT ![p].rhs = inp[p].rhs]
            /\ UNCHANGED <<dev, calls>>
    /\ pc' = [pc EXCEPT ![p] = "dims"]
    /\ UNCHANGED <<inp, result>>
    /\ UNCHANGED <<elemVars, errVars>>

(***************************************************************************)
(* matmul_tiling_2d_ref_no_check                                           *)
(***************************************************************************)
\* faulty variant: m and k are read from each other's axis
ExtractDims_swapped(p) ==
    /\ pc[p] = "dims"
    /\ LET lhs == loc[p].lhs
           rhs == loc[p].rhs
           rank == Len(lhs.strides)
       IN  IF rank < 2 \/ rank > Len(lhs.shape) \/ rank > Len(rhs.shape)
           THEN Finish(p, Panic("index out of bounds")) /\ UNCHANGED loc
           ELSE /\ loc' = [loc EXCEPT ![p].m = lhs.shape[rank],
                                      ![p].k = lhs.shape[rank - 1],
                                      ![p].n = rhs.shape[rank]]
                /\ pc' = [pc EXCEPT ![p] = "transposed"]
                /\ UNCHANGED result
    /\ UNCHANGED <<inp, calls, dev>>
    /\ UNCHANGED <<elemVars, errVars>>

\* let rank = lhs.strides.len(); m, k, n are read from the shapes with it
ExtractDims(p) ==
    /\ pc[p] = "dims"
    /\ LET lhs == loc[p].lhs
           rhs == loc[p].rhs
           rank == Len(lhs.strides)
       IN  IF rank < 2 \/ rank > Len(lhs.shape) \/ rank > Len(rhs.shape)
           THEN Finish(p, Panic("index out of bounds")) /\ UNCHANGED loc
           ELSE /\ loc' = [loc EXCEPT ![p].m = lhs.shape[rank - 1],
                                      ![p].k = lhs.shape[rank],
                                      ![p].n = rhs.shape[rank]]
                /\ pc' = [pc EXCEPT ![p] = "transposed"]
                /\ UNCHANGED result
    /\ UNCHANGED <<inp, calls, dev>>
    /\ UNCHANGED <<elemVars, errVars>>

\* the second check_layout closure: the transposed flag of a layout, or the
\* panic "Can't run on highly permuted tensor"
check_layout(strides) ==
    LET layout == matrix_layout(strides)
    IN  CASE layout.kind = "Contiguous" -> [panic |-> FALSE, transposed |-> FALSE]
          [] layout.kind = "MildlyPermuted" ->
                [panic |-> FALSE, transposed |-> layout.transposed]
          [] layout.kind = "HighlyPermuted" -> [panic |-> TRUE, transposed |-> FALSE]

DetectTransposition(p) ==
    /\ pc[p] = "transposed"
    /\ LET l == check_layout(loc[p].lhs.strides)
           r == check_layout(loc[p].rhs.strides)
       IN  IF l.panic
           THEN /\ Finish(p, Panic("Can't run on highly permuted tensor"))
                /\ calls' = [calls EXCEPT ![p].matrix_layout = @ + 1]
                /\ UNCHANGED loc
           ELSE IF r.panic
           THEN /\ Finish(p, Panic("Can't run on highly permuted tensor"))
                /\ calls' = [calls EXCEPT ![p].matrix_layout = @ + 2]
                /\ UNCHANGED loc
           ELSE /\ loc' = [loc EXCEPT ![p].lhs_transposed = l.transposed,
                                      ![p].rhs_transposed = r.transposed]
                /\ calls' = [calls EXCEPT ![p].matrix_layout = @ + 2]
                /\ pc' = [pc EXCEPT ![p] = "vectorize"]
                /\ UNCHANGED result
    /\ UNCHANGED <<inp, dev>>
    /\ UNCHANGED <<elemVars, errVars>>

PriorityList == <<4, 2>>

\* faulty variant: the priority list is read from its low end
vectorization_low_first(shape) ==
    LET hits == SelectSeq(<<2, 4>>, LAMBDA v : shape % v = 0)
    IN  IF Len(hits) > 0 THEN hits[1] ELSE 1

\* the vectorization closure: the first factor of the list that divides shape
vectorization(shape) ==
    LET hits == SelectSeq(PriorityList, LAMBDA v : shape % v = 0)
    IN  IF Len(hits) > 0 THEN hits[1] ELSE 1

lhs_vectorization(lhs_transposed, m) == IF lhs_transposed THEN vectorization(m) ELSE 1
rhs_vectorization(rhs_transposed, n) == IF rhs_transposed THEN 1 ELSE vectorization(n)
out_vectorization(n) == vectorization(n)

SelectVectorization(p) ==
    /\ pc[p] = "vectorize"
    /\ loc' = [loc EXCEPT
            ![p].lhs_vectorization = lhs_vectorization(loc[p].lhs_transposed, loc[p].m),
            ![p].rhs_vectorization = rhs_vectorization(loc[p].rhs_transposed, loc[p].n),
            ![p].out_vectorization = out_vectorization(loc[p].n)]
    /\ pc' = [pc EXCEPT ![p] = "cube_count"]
    /\ UNCHANGED <<inp, result, calls, dev>>
    /\ UNCHANGED <<elemVars, errVars>>

\* faulty variant: only the x axis is compared
ExceedsMax_x_only(cube_count) == cube_count.x > max_cube_count[1]

\* x > max_x || y > max_y || z > max_z
ExceedsMax(cube_count) ==
    \/ cube_count.x > max_cube_count[1]
    \/ cube_count.y > max_cube_count[2]
    \/ cube_count.z > max_cube_count[3]

\* faulty variant: the kernel is dispatched before the grid is compared
CheckCubeCount_after_launch(p) ==
    /\ pc[p] = "cube_count"
    /\ LET cube_count == tiling2d_cube_count(inp[p].out.shape, inp[p].config)
       IN  /\ loc' = [loc EXCEPT ![p].cube_count = cube_count]
           /\ IF cube_count.kind = "Static" /\ ExceedsMax(cube_count)
              THEN /\ Finish(p, ErrCubeCountTooBig(cube_count))
                   /\ dev' = [dev EXCEPT !.launches = @ \cup {
                        [ by |-> p,
                          cube_count |-> cube_count,
                          lhs |-> TensorArg(loc[p].lhs, loc[p].lhs_vectorization),
                          rhs |-> TensorArg(loc[p].rhs, loc[p].rhs_vectorization),
                          out |-> TensorArg(inp[p].out, loc[p].out_vectorization),
                          cube_config |-> CubeTiling2dConfig(inp[p].config, loc[p].m,
                                              loc[p].k, loc[p].n, loc[p].lhs_transposed,
                                              loc[p].rhs_transposed) ]}]
              ELSE pc' = [pc EXCEPT ![p] = "launch"] /\ UNCHANGED <<result, dev>>
    /\ UNCHANGED <<inp, calls>>
    /\ UNCHANGED <<elemVars, errVars>>

CheckCubeCount(p) ==
    /\ pc[p] = "cube_count"
    /\ LET cube_count == tiling2d_cube_count(inp[p].out.shape, inp[p].config)
       IN  /\ loc' = [loc EXCEPT ![p].cube_count = cube_count]
           /\ IF cube_count.kind = "Static" /\ ExceedsMax(cube_count)
              THEN Finish(p, ErrCubeCountTooBig(cube_count))
              ELSE pc' = [pc EXCEPT ![p] = "launch"] /\ UNCHANGED result
    /\ UNCHANGED <<inp, calls, dev>>
    /\ UNCHANGED <<elemVars, errVars>>

\* tiling2d_cube_kernel::launch_unchecked, then Ok(())
LaunchKernel(p) ==
    /\ pc[p] = "launch"
    /\ dev' = [dev EXCEPT !.launches = @ \cup {
            [ by |-> p,
              cube_count |-> loc[p].cube_count,
              lhs |-> TensorArg(loc[p].lhs, loc[p].lhs_vectorization),
              rhs |-> TensorArg(loc[p].rhs, loc[p].rhs_vectorization),
              out |-> TensorArg(inp[p].out, loc[p].out_vectorization),
              cube_config |-> CubeTiling2dConfig(inp[p].config, loc[p].m, loc[p].k,
                                  loc[p].n, loc[p].lhs_transposed, loc[p].rhs_transposed) ]}]
    /\ calls' = [calls EXCEPT ![p].launch = @ + 1]
    /\ Finish(p, Ok)
    /\ UNCHANGED <<inp, loc>>
    /\ UNCHANGED <<elemVars, errVars>>

(***************************************************************************)
(* shader.rs: Elem and its constant constructors                           *)
(***************************************************************************)
MaxHost == 2       \* host scalars range over -MaxHost..MaxHost (f64 in steps of 1/2)

FloatKind == {"F16", "BF16", "F32", "F64"}
IntKind == {"I32", "I64"}

ElemFloat(kind) == [tag |-> "Float", kind |-> kind]
ElemInt(kind) == [tag |-> "Int", kind |-> kind]
ElemUInt == [tag |-> "UInt", kind |-> "none"]
ElemBool == [tag |-> "Bool", kind |-> "none"]
NoElem == [tag |-> "none", kind |-> "none"]

Elem == {ElemFloat(k) : k \in FloatKind} \cup {ElemInt(k) : k \in IntKind} \cup {ElemUInt, ElemBool}

\* host scalars. An f64 is NaN or halves/2; a u64 is off, plus 2^64 when wrapped.
F64(nan, halves) == [nan |-> nan, halves |-> halves]
U64(wrapped, off) == [wrapped |-> wrapped, off |-> off]
HostF64 == {F64(TRUE, 0)} \cup {F64(FALSE, h) : h \in (-2 * MaxHost)..(2 * MaxHost)}
HostI64 == (-MaxHost)..MaxHost
HostU64 == {U64(FALSE, v) : v \in 0..MaxHost}
NoHost == [type |-> "none", val |-> 0]

\* the casts of the constructors
F64AsI64(val) ==
    IF val.nan THEN 0
    ELSE IF val.halves >= 0 THEN val.halves \div 2 ELSE -((-val.halves) \div 2)
F64AsU64(val) ==
    IF val.nan \/ val.halves < 0 THEN U64(FALSE, 0) ELSE U64(FALSE, val.halves \div 2)
F64Positive(val) == ~val.nan /\ val.halves > 0
I64AsF64(val) == F64(FALSE, 2 * val)
I64AsU64(val) == IF val < 0 THEN U64(TRUE, val) ELSE U64(FALSE, val)
U64AsF64(val) == F64(FALSE, 2 * val.off)
U64AsI64(val) == val.off
U64Positive(val) == val.wrapped \/ val.off > 0
BoolAsInt(val) == IF val THEN 1 ELSE 0

\* ConstantScalarValue
ConstFloat(val, kind) == [tag |-> "Float", kind |-> kind, val |-> val]
ConstInt(val, kind) == [tag |-> "Int", kind |-> kind, val |-> val]
ConstUInt(val) == [tag |-> "UInt", kind |-> "none", val |-> val]
ConstBool(val) == [tag |-> "Bool", kind |-> "none", val |-> val]
NoConstant == [tag |-> "none", kind |-> "none", val |-> 0]

constant_from_f64(self, val) ==
    CASE self.tag = "Float" -> ConstFloat(val, self.kind)
      [] self.tag = "Int" -> ConstInt(F64AsI64(val), self.kind)
      [] self.tag = "UInt" -> ConstUInt(F64AsU64(val))
      [] self.tag = "Bool" -> ConstBool(F64Positive(val))

\* faulty variant: the constant takes the type of the host literal
constant_from_i64_native(self, val) == ConstInt(val, "I64")

constant_from_i64(self, val) ==
    CASE self.tag = "Float" -> ConstFloat(I64AsF64(val), self.kind)
      [] self.tag = "Int" -> ConstInt(val, self.kind)
      [] self.tag = "UInt" -> ConstUInt(I64AsU64(val))
      [] self.tag = "Bool" -> ConstBool(val > 0)

constant_from_u64(self, val) ==
    CASE self.tag = "Float" -> ConstFloat(U64AsF64(val), self.kind)
      [] self.tag = "Int" -> ConstInt(U64AsI64(val), self.kind)
      [] self.tag = "UInt" -> ConstUInt(val)
      [] self.tag = "Bool" -> ConstBool(U64Positive(val))

constant_from_bool(self, val) ==
    CASE self.tag = "Float" -> ConstFloat(F64(FALSE, 2 * BoolAsInt(val)), self.kind)
      [] self.tag = "Int" -> ConstInt(BoolAsInt(val), self.kind)
      [] self.tag = "UInt" -> ConstUInt(U64(FALSE, BoolAsInt(val)))
      [] self.tag = "Bool" -> ConstBool(val)

(***************************************************************************)
(* error.rs: ConvLaunchError, its Debug rendering and its conversions      *)
(***************************************************************************)
MaxGroups == 11    \* group counts range over 0..MaxGroups
MaxGrid == 11      \* each axis of a reported grid is 1 or MaxGrid

Slots == {1, 2}

Digit(d) ==
    CASE d = 0 -> "0" [] d = 1 -> "1" [] d = 2 -> "2" [] d = 3 -> "3" [] d = 4 -> "4"
      [] d = 5 -> "5" [] d = 6 -> "6" [] d = 7 -> "7" [] d = 8 -> "8" [] d = 9 -> "9"

RECURSIVE Decimal(_)
\* the Display rendering of an unsigned integer
Decimal(n) == IF n < 10 THEN Digit(n) ELSE Decimal(n \div 10) \o Digit(n % 10)

\* MatmulAvailabilityError::CubeCountTooBig(cube_count)
CubeCountTooBig(cube_count) == [variant |-> "CubeCountTooBig", cube_count |-> cube_count]
\* MatmulLaunchError::Unavailable(err)
Unavailable(err) == [variant |-> "Unavailable", cause |-> err]
NoMatmulError == [variant |-> "none", cause |-> CubeCountTooBig(NoCubeCount)]

ReportedGrids == {Static(x, y, z) : x \in {1, MaxGrid}, y \in {1, MaxGrid}, z \in {1, MaxGrid}}
MatmulAvailabilityErrors == {CubeCountTooBig(g) : g \in ReportedGrids}
MatmulLaunchErrors == {Unavailable(e) : e \in MatmulAvailabilityErrors}

\* the Debug rendering of a cube count
CubeCountDebug(c) ==
    "(" \o Decimal(c.x) \o ", " \o Decimal(c.y) \o ", " \o Decimal(c.z) \o ")"

\* the Debug rendering of a MatmulAvailabilityError
MatmulAvailabilityDebug(err) ==
    "Cube count too big " \o CubeCountDebug(err.cube_count) \o "\n"

\* the Debug rendering of a MatmulLaunchError
MatmulLaunchDebug(err) ==
    "Unable to launch matmul because a required feature is unavailable: "
        \o MatmulAvailabilityDebug(err.cause) \o "\n"

\* ConvLaunchError
ConvMatmul(err) == [variant |-> "Matmul", matmul |-> err, groups |-> 0]
ConvGroups(n) == [variant |-> "Groups", matmul |-> NoMatmulError, groups |-> n]
ConvCubeCountTooLarge == [variant |-> "CubeCountTooLarge", matmul |-> NoMatmulError, groups |-> 0]
ConvUnknown == [variant |-> "Unknown", matmul |-> NoMatmulError, groups |-> 0]
NoError == [variant |-> "none", matmul |-> NoMatmulError, groups |-> 0]

\* faulty variant: the Groups arm leaves the count out of the message
ConvLaunchDebug_no_count(err) ==
    CASE err.variant = "Matmul" -> MatmulLaunchDebug(err.matmul)
      [] err.variant = "Groups" ->
            "Unable to launch matmul because groups must be one" \o "\n"
      [] err.variant = "CubeCountTooLarge" ->
            "The cube count is larger than the max supported."
      [] err.variant = "Unknown" -> "Unknown"

\* impl Debug for ConvLaunchError
ConvLaunchDebug(err) ==
    CASE err.variant = "Matmul" -> MatmulLaunchDebug(err.matmul)
      [] err.variant = "Groups" ->
            "Unable to launch matmul because groups must be one, is actually "
                \o Decimal(err.groups) \o "\n"
      [] err.variant = "CubeCountTooLarge" ->
            "The cube count is larger than the max supported."
      [] err.variant = "Unknown" -> "Unknown"

\* impl From<MatmulLaunchError> for ConvLaunchError
from_matmul_launch_error(value) == ConvMatmul(value)

\* impl From<MatmulAvailabilityError> for ConvLaunchError
from_matmul_availability_error(value) == ConvMatmul(Unavailable(value))

\* AutotuneError::Unknown(String)
AutotuneUnknown(message) == [variant |-> "Unknown", message |-> message]
NoReport == [variant |-> "none", message |-> ""]

\* impl Into<AutotuneError> for ConvLaunchError
into_autotune_error(self) == AutotuneUnknown(ConvLaunchDebug(self))

(***************************************************************************)
(* Planner specifications                                                  *)
(***************************************************************************)
NoTensor == Tensor([space |-> "none", id |-> 0], <<>>, <<>>)

NoLocals ==
    [ lhs_correct_layout |-> FALSE, rhs_correct_layout |-> FALSE,
      lhs |-> NoTensor, rhs |-> NoTensor, m |-> 0, k |-> 0, n |-> 0,
      lhs_transposed |-> FALSE, rhs_transposed |-> FALSE,
      lhs_vectorization |-> 0, rhs_vectorization |-> 0, out_vectorization |-> 0,
      cube_count |-> NoCubeCount ]

NoCalls == [matrix_layout |-> 0, into_contiguous |-> 0, launch |-> 0]

IdleInput(p) == MkInput(p, 2, 2, 1, 1, 1, "contiguous", "contiguous", 2, 2, 4, 2)

ElemIdle ==
    /\ elem = NoElem
    /\ host = NoHost
    /\ constant = NoConstant

ErrIdle ==
    /\ errs = [s \in Slots |-> NoError]
    /\ reports = [s \in Slots |-> NoReport]

PlannerStart ==
    /\ loc = [p \in Procs |-> NoLocals]
    /\ result = [p \in Procs |-> NoResult]
    /\ calls = [p \in Procs |-> NoCalls]
    /\ dev = [next_buf |-> 0, allocs |-> {}, launches |-> {}]

\* one call of matmul_tiling_2d_ref, with any arguments
Init ==
    /\ pc = [p \in Procs |-> IF p = 1 THEN "assert" ELSE "off"]
    /\ \E rl \in Ranks, rr \in Ranks, b \in {1, MaxBatch}, m \in 1..MaxDim, n \in 1..MaxDim,
          bm \in BlockSizes, bn \in BlockSizes, esize \in ElemSizes :
            \E vl \in Variants(rl), vr \in Variants(rr) :
                inp = [p \in Procs |->
                        IF p = 1 THEN MkInput(1, rl, rr, b, m, n, vl, vr, bm, bn, 4, esize)
                        ELSE IdleInput(p)]
    /\ PlannerStart
    /\ ElemIdle
    /\ ErrIdle

\* two concurrent calls, each with its own handles and configuration
InitConc ==
    /\ pc = [p \in Procs |-> "assert"]
    /\ \E i \in ConcInputs, j \in ConcInputs :
            inp = [p \in Procs |-> MkConcInput(p, IF p = 1 THEN i ELSE j)]
    /\ PlannerStart
    /\ ElemIdle
    /\ ErrIdle

Step(p) ==
    \/ CheckSharedMemory(p)
    \/ ClassifyLayouts(p)
    \/ RepairLhs(p)
    \/ RepairRhs(p)
    \/ ExtractDims(p)
    \/ DetectTransposition(p)
    \/ SelectVectorization(p)
    \/ CheckCubeCount(p)
    \/ LaunchKernel(p)

Next == \E p \in Procs : Step(p)

Spec == Init /\ [][Next]_vars

SpecConc == InitConc /\ [][Next]_vars

(***************************************************************************)
(* Observations used by the properties                                     *)
(***************************************************************************)
Started == {p \in Procs : pc[p] # "off"}
LaunchesBy(p) == {l \in dev.launches : l.by = p}
AllocsBy(p) == {a \in dev.allocs : a.by = p}
DeviceUntouchedBy(p) ==
    /\ LaunchesBy(p) = {}
    /\ AllocsBy(p) = {}
    /\ calls[p].into_contiguous = 0
    /\ calls[p].launch = 0

SharedMemoryPanic == Panic("Shared memory limit will be busted. ")
HighlyPermutedPanic == Panic("Can't run on highly permuted tensor")
IndexPanic == Panic("index out of bounds")

\* element_size * block_size_k * max(block_size_m, block_size_n)
SharedMemoryNeed(i) ==
    i.elem_size * i.config.block_size_k
        * (IF i.config.block_size_m > i.config.block_size_n
           THEN i.config.block_size_m ELSE i.config.block_size_n)

IsHighly(tensor) == matrix_layout(tensor.strides).kind = "HighlyPermuted"
NumHighly(i) == (IF IsHighly(i.lhs) THEN 1 ELSE 0) + (IF IsHighly(i.rhs) THEN 1 ELSE 0)

\* the call has got past the layout repair of matmul_tiling_2d_ref
Repaired(p) ==
    \/ pc[p] \in {"dims", "transposed", "vectorize", "cube_count", "launch"}
    \/ pc[p] = "done" /\ result[p] # SharedMemoryPanic

\* C1: a call whose shared-memory need exceeds the limit aborts in the
\* opening assertion, before any layout classification, any normalization
\* (no buffer is allocated) and any dispatch; a call whose need is within
\* the limit is never aborted by the assertion.
C1_SharedMemoryAbortFirst ==
    \A p \in Started :
        /\ SharedMemoryNeed(inp[p]) > max_shared_memory_size =>
              /\ pc[p] \in {"assert", "done"}
              /\ pc[p] = "done" => result[p] = SharedMemoryPanic
              /\ calls[p] = NoCalls
              /\ DeviceUntouchedBy(p)
        /\ SharedMemoryNeed(inp[p]) <= max_shared_memory_size =>
              /\ result[p] # SharedMemoryPanic
              /\ pc[p] # "assert" => Repaired(p) \/ pc[p] \in {"classify", "repair_lhs", "repair_rhs"}

C1_Witness ==
    \E p \in Started : result[p] = SharedMemoryPanic /\ IsHighly(inp[p].lhs)

\* the grid of the call, once CheckCubeCount has computed it
GridChecked(p) == loc[p].cube_count.kind = "Static"
TooBig(g) == g.x > max_cube_count[1] \/ g.y > max_cube_count[2] \/ g.z > max_cube_count[3]

\* C2: once the grid is computed, if an axis exceeds the hardware maximum the
\* call has returned the grid-too-large error carrying exactly that grid and
\* has launched nothing; if no axis exceeds it, no error is returned.
C2_GridTooLarge ==
    \A p \in Started :
        /\ GridChecked(p) =>
              LET g == tiling2d_cube_count(inp[p].out.shape, inp[p].config)
              IN  /\ TooBig(g) =>
                        /\ pc[p] = "done"
                        /\ result[p] = ErrCubeCountTooBig(g)
                        /\ calls[p].launch = 0
                        /\ LaunchesBy(p) = {}
                  /\ ~TooBig(g) => result[p].kind # "Err"
        /\ result[p].kind = "Err" => GridChecked(p)

C2_Witness ==
    \E p \in Started :
        /\ result[p].kind = "Err"
        /\ result[p].cube_count.z > max_cube_count[3]
        /\ result[p].cube_count.x <= max_cube_count[1]

\* C3 as claimed: a call that ends in Err has had no device-side effect,
\* neither a normalization (buffer allocation) nor a dispatch.
C3_ErrBeforeDevice ==
    \A p \in Started : result[p].kind = "Err" => DeviceUntouchedBy(p)

\* C3 amended: a call that ends in Err has dispatched nothing; the only
\* device-side effect before the Err is the normalization of layout repair,
\* one buffer per HighlyPermuted operand (none when no operand is).
C3_ErrBeforeDispatch ==
    \A p \in Started :
        result[p].kind = "Err" =>
            /\ LaunchesBy(p) = {}
            /\ calls[p].launch = 0
            /\ calls[p].into_contiguous = NumHighly(inp[p])
            /\ Cardinality(AllocsBy(p)) = NumHighly(inp[p])

C3_Witness ==
    \E p \in Started :
        /\ result[p].kind = "Err"
        /\ NumHighly(inp[p]) = 2
        /\ Cardinality(AllocsBy(p)) = 2

\* vectorize(L) of the specification: 4 if 4 divides L, else 2 if 2 divides L, else 1
vectorize(L) == IF L % 4 = 0 THEN 4 ELSE IF L % 2 = 0 THEN 2 ELSE 1

\* C4: every dispatch passes lhs_vectorization = vectorize(m) if lhs is
\* transposed and 1 otherwise, rhs_vectorization = vectorize(n) if rhs is
\* not transposed and 1 otherwise, and out_vectorization = vectorize(n);
\* vectorize(8) = 4, vectorize(6) = 2, vectorize(5) = 1, vectorize(1) = 1.
C4_Vectorization ==
    /\ vectorization(8) = 4 /\ vectorization(6) = 2
    /\ vectorization(5) = 1 /\ vectorization(1) = 1
    /\ \A l \in dev.launches :
          LET m == l.cube_config.m
              n == l.cube_config.n
              lhs_t == matrix_layout(l.lhs.strides).transposed
              rhs_t == matrix_layout(l.rhs.strides).transposed
          IN  /\ l.lhs.vectorization = (IF lhs_t THEN vectorize(m) ELSE 1)
              /\ l.rhs.vectorization = (IF rhs_t THEN 1 ELSE vectorize(n))
              /\ l.out.vectorization = vectorize(n)

C4_Witness ==
    \E l \in dev.launches :
        /\ matrix_layout(l.lhs.strides).transposed
        /\ matrix_layout(l.rhs.strides).transposed
        /\ l.lhs.vectorization = 4
        /\ l.rhs.vectorization = 1
        /\ l.out.vectorization = 2

\* a fresh contiguous copy of tensor, allocated for call p
FreshCopy(copy, tensor, p) ==
    /\ copy.handle.space = "device"
    /\ copy.shape = tensor.shape
    /\ matrix_layout(copy.strides).kind = "Contiguous"
    /\ [handle |-> copy.handle, by |-> p, from |-> tensor.handle,
        shape |-> tensor.shape] \in dev.allocs

\* C8: after layout repair each operand is a fresh contiguous copy exactly
\* when its own layout is HighlyPermuted and is the caller's tensor
\* otherwise, whatever the other operand's layout; into_contiguous has been
\* called once per HighlyPermuted operand; out is dispatched as given.
C8_RepairPerOperand ==
    \A p \in Started :
        /\ Repaired(p) =>
              /\ IF IsHighly(inp[p].lhs) THEN FreshCopy(loc[p].lhs, inp[p].lhs, p)
                                         ELSE loc[p].lhs = inp[p].lhs
              /\ IF IsHighly(inp[p].rhs) THEN FreshCopy(loc[p].rhs, inp[p].rhs, p)
                                         ELSE loc[p].rhs = inp[p].rhs
              /\ calls[p].into_contiguous = NumHighly(inp[p])
              /\ Cardinality(AllocsBy(p)) = NumHighly(inp[p])
        /\ \A l \in LaunchesBy(p) :
              /\ l.out.handle = inp[p].out.handle
              /\ l.out.strides = inp[p].out.strides
              /\ l.out.shape = inp[p].out.shape

C8_Witness ==
    \E p \in Started :
        /\ Repaired(p)
        /\ matrix_layout(inp[p].lhs.strides) = MildlyPermuted(TRUE, TRUE)
        /\ IsHighly(inp[p].rhs)
        /\ loc[p].lhs = inp[p].lhs
        /\ loc[p].rhs.handle.space = "device"

\* the call has got past the dimension extraction of the unchecked planner
DimsExtracted(p) ==
    \/ pc[p] \in {"transposed", "vectorize", "cube_count", "launch"}
    \/ pc[p] = "done" /\ result[p] \notin {SharedMemoryPanic, IndexPanic}

Last(s) == s[Len(s)]
SecondLast(s) == s[Len(s) - 1]

DimsAsSpecified(p) ==
    /\ result[p] # IndexPanic
    /\ DimsExtracted(p) =>
          /\ loc[p].m = SecondLast(inp[p].lhs.shape)
          /\ loc[p].k = Last(inp[p].lhs.shape)
          /\ loc[p].n = Last(inp[p].rhs.shape)
    /\ \A l \in LaunchesBy(p) :
          /\ l.cube_config.m = SecondLast(inp[p].lhs.shape)
          /\ l.cube_config.k = Last(inp[p].lhs.shape)
          /\ l.cube_config.n = Last(inp[p].rhs.shape)
          /\ l.out.vectorization = vectorize(Last(inp[p].rhs.shape))
          /\ l.lhs.vectorization \in {1, vectorize(SecondLast(inp[p].lhs.shape))}
          /\ l.rhs.vectorization \in {1, vectorize(Last(inp[p].rhs.shape))}

\* C9 as claimed: for lhs and rhs of any ranks >= 2, equal or not, m, k, n
\* are lhs.shape[-2], lhs.shape[-1], rhs.shape[-1], in the launch
\* configuration and in the vectorization.
C9_DimsAnyRanks == \A p \in Started : DimsAsSpecified(p)

\* C9 amended: the same, for lhs and rhs of the same rank >= 2.
C9_DimsEqualRanks ==
    \A p \in Started :
        Len(inp[p].lhs.shape) = Len(inp[p].rhs.shape) => DimsAsSpecified(p)

C9_Witness ==
    \E p \in Started : \E l \in LaunchesBy(p) :
        /\ Len(inp[p].lhs.shape) = 3
        /\ Len(inp[p].rhs.shape) = 3
        /\ l.cube_config.m = 4
        /\ l.cube_config.k = KDim
        /\ l.cube_config.n = 2

\* the call has got past the transposition detection
TranspositionDetected(p) ==
    \/ pc[p] \in {"vectorize", "cube_count", "launch"}
    \/ pc[p] = "done" /\ result[p].kind \in {"Err", "Ok"}

\* C10: after layout repair neither operand handed to the unchecked planner
\* is HighlyPermuted, the highly-permuted panic never fires, and the
\* transposition flags are false for Contiguous and the transposed flag for
\* MildlyPermuted.
C10_NoHighlyPermutedPanic ==
    \A p \in Started :
        /\ result[p] # HighlyPermutedPanic
        /\ Repaired(p) => ~IsHighly(loc[p].lhs) /\ ~IsHighly(loc[p].rhs)
        /\ TranspositionDetected(p) =>
              /\ loc[p].lhs_transposed = matrix_layout(loc[p].lhs.strides).transposed
              /\ loc[p].rhs_transposed = matrix_layout(loc[p].rhs.strides).transposed
              /\ IsHighly(inp[p].lhs) => ~loc[p].lhs_transposed
              /\ IsHighly(inp[p].rhs) => ~loc[p].rhs_transposed

C10_Witness ==
    \E p \in Started :
        /\ TranspositionDetected(p)
        /\ IsHighly(inp[p].lhs)
        /\ IsHighly(inp[p].rhs)

(***************************************************************************)
(* Concurrent calls                                                        *)
(***************************************************************************)
\* how a call with arguments i ends when it runs alone
AloneResult(i) ==
    IF SharedMemoryNeed(i) > max_shared_memory_size THEN SharedMemoryPanic
    ELSE IF Len(i.rhs.shape) < Len(i.lhs.shape) THEN IndexPanic
    ELSE LET g == tiling2d_cube_count(i.out.shape, i.config)
         IN  IF TooBig(g) THEN ErrCubeCountTooBig(g) ELSE Ok

\* the strides an operand is dispatched with when its call runs alone
AloneStrides(tensor) ==
    IF IsHighly(tensor) THEN contiguous_strides(tensor.shape) ELSE tensor.strides

\* what a call with arguments i dispatches when it runs alone, the identity
\* of the buffers left out
AloneDispatch(i) ==
    LET lhs_t == matrix_layout(AloneStrides(i.lhs)).transposed
        rhs_t == matrix_layout(AloneStrides(i.rhs)).transposed
        m == SecondLast(i.lhs.shape)
        k == Last(i.lhs.shape)
        n == i.rhs.shape[Len(i.lhs.shape)]
    IN  [ cube_count |-> tiling2d_cube_count(i.out.shape, i.config),
          lhs |-> [strides |-> AloneStrides(i.lhs), shape |-> i.lhs.shape,
                   vectorization |-> IF lhs_t THEN vectorize(m) ELSE 1],
          rhs |-> [strides |-> AloneStrides(i.rhs), shape |-> i.rhs.shape,
                   vectorization |-> IF rhs_t THEN 1 ELSE vectorize(n)],
          out |-> [strides |-> i.out.strides, shape |-> i.out.shape,
                   vectorization |-> vectorize(n)],
          cube_config |-> [ block_size_m |-> i.config.block_size_m,
                            block_size_n |-> i.config.block_size_n,
                            block_size_k |-> i.config.block_size_k,
                            m |-> m, k |-> k, n |-> n,
                            lhs_transposed |-> lhs_t, rhs_transposed |-> rhs_t ] ]

Unhandled(arg) == [strides |-> arg.strides, shape |-> arg.shape,
                   vectorization |-> arg.vectorization]

DispatchView(l) ==
    [ cube_count |-> l.cube_count, lhs |-> Unhandled(l.lhs), rhs |-> Unhandled(l.rhs),
      out |-> Unhandled(l.out), cube_config |-> l.cube_config ]

CallerHandles(p) == {inp[p].lhs.handle, inp[p].rhs.handle, inp[p].out.handle}
OwnHandles(p) == CallerHandles(p) \cup {a.handle : a \in AllocsBy(p)}

\* C7: in every interleaving of two calls with their own handles and
\* configuration, each call ends, repairs and dispatches as it does alone,
\* touches only its own handles and the buffers allocated for it, and no
\* buffer is handed to two calls.
C7_CallsIndependent ==
    /\ \A p \in Started :
          /\ pc[p] = "done" => result[p] = AloneResult(inp[p])
          /\ pc[p] # "done" => result[p] = NoResult
          /\ Repaired(p) =>
                /\ calls[p].into_contiguous = NumHighly(inp[p])
                /\ Cardinality(AllocsBy(p)) = NumHighly(inp[p])
                /\ loc[p].lhs.handle \in OwnHandles(p)
                /\ loc[p].rhs.handle \in OwnHandles(p)
          /\ IF result[p] = Ok
             THEN {DispatchView(l) : l \in LaunchesBy(p)} = {AloneDispatch(inp[p])}
             ELSE LaunchesBy(p) = {}
          /\ \A l \in LaunchesBy(p) :
                {l.lhs.handle, l.rhs.handle, l.out.handle} \subseteq OwnHandles(p)
          /\ \A a \in AllocsBy(p) : a.from \in CallerHandles(p)
          /\ \A q \in Started \ {p} : OwnHandles(p) \cap OwnHandles(q) = {}
    /\ \A a, b \in dev.allocs : a.handle = b.handle => a = b

C7_Witness ==
    /\ \A p \in Procs : result[p] = Ok /\ NumHighly(inp[p]) = 2
    /\ \E a, c \in AllocsBy(2) : \E b \in AllocsBy(1) :
          a.handle.id < b.handle.id /\ b.handle.id < c.handle.id

(***************************************************************************)
(* Specification of the constant constructors                              *)
(***************************************************************************)
PlannerIdle ==
    /\ pc = [p \in Procs |-> "off"]
    /\ inp = [p \in Procs |-> IdleInput(p)]
    /\ PlannerStart

InitElem ==
    /\ PlannerIdle
    /\ ElemIdle
    /\ ErrIdle

ConstantFromF64(self) ==
    \E val \in HostF64 :
        /\ elem' = self
        /\ host' = [type |-> "f64", val |-> val]
        /\ constant' = constant_from_f64(self, val)
        /\ UNCHANGED <<plannerVars, errVars>>

ConstantFromI64(self) ==
    \E val \in HostI64 :
        /\ elem' = self
        /\ host' = [type |-> "i64", val |-> val]
        /\ constant' = constant_from_i64(self, val)
        /\ UNCHANGED <<plannerVars, errVars>>

ConstantFromU64(self) ==
    \E val \in HostU64 :
        /\ elem' = self
        /\ host' = [type |-> "u64", val |-> val]
        /\ constant' = constant_from_u64(self, val)
        /\ UNCHANGED <<plannerVars, errVars>>

ConstantFromBool(self) ==
    \E val \in BOOLEAN :
        /\ elem' = self
        /\ host' = [type |-> "bool", val |-> val]
        /\ constant' = constant_from_bool(self, val)
        /\ UNCHANGED <<plannerVars, errVars>>

NextElem ==
    \E self \in Elem :
        \/ ConstantFromF64(self)
        \/ ConstantFromI64(self)
        \/ ConstantFromU64(self)
        \/ ConstantFromBool(self)

SpecElem == InitElem /\ [][NextElem]_vars

\* C5: the constant returned by constant_from_f64/i64/u64/bool carries the
\* tag of the element it was built from, with the same FloatKind or IntKind,
\* whatever the native type of the host scalar.
C5_ConstantCarriesElemTag ==
    constant # NoConstant =>
        /\ constant.tag = elem.tag
        /\ constant.kind = elem.kind
        /\ elem.tag = "Float" => constant.kind \in FloatKind
        /\ elem.tag = "Int" => constant.kind \in IntKind

C5_Witness ==
    /\ elem = ElemFloat("F16")
    /\ host = [type |-> "i64", val |-> -1]
    /\ constant = ConstFloat(F64(FALSE, -2), "F16")

(***************************************************************************)
(* Specification of the launch errors                                      *)
(***************************************************************************)
InitErr ==
    /\ PlannerIdle
    /\ ElemIdle
    /\ ErrIdle

\* a launch error is raised in slot s; the slot's earlier report is dropped
NewGroups(s) ==
    \E n \in 0..MaxGroups :
        /\ errs' = [errs EXCEPT ![s] = ConvGroups(n)]
        /\ reports' = [reports EXCEPT ![s] = NoReport]
        /\ UNCHANGED <<plannerVars, elemVars>>

NewCubeCountTooLarge(s) ==
    /\ errs' = [errs EXCEPT ![s] = ConvCubeCountTooLarge]
    /\ reports' = [reports EXCEPT ![s] = NoReport]
    /\ UNCHANGED <<plannerVars, elemVars>>

NewUnknown(s) ==
    /\ errs' = [errs EXCEPT ![s] = ConvUnknown]
    /\ reports' = [reports EXCEPT ![s] = NoReport]
    /\ UNCHANGED <<plannerVars, elemVars>>

FromMatmulLaunchError(s) ==
    \E value \in MatmulLaunchErrors :
        /\ errs' = [errs EXCEPT ![s] = from_matmul_launch_error(value)]
        /\ reports' = [reports EXCEPT ![s] = NoReport]
        /\ UNCHANGED <<plannerVars, elemVars>>

FromMatmulAvailabilityError(s) ==
    \E value \in MatmulAvailabilityErrors :
        /\ errs' = [errs EXCEPT ![s] = from_matmul_availability_error(value)]
        /\ reports' = [reports EXCEPT ![s] = NoReport]
        /\ UNCHANGED <<plannerVars, elemVars>>

IntoAutotuneError(s) ==
    /\ errs[s] # NoError
    /\ reports' = [reports EXCEPT ![s] = into_autotune_error(errs[s])]
    /\ UNCHANGED errs
    /\ UNCHANGED <<plannerVars, elemVars>>

NextErr ==
    \E s \in Slots :
        \/ NewGroups(s)
        \/ NewCubeCountTooLarge(s)
        \/ NewUnknown(s)
        \/ FromMatmulLaunchError(s)
        \/ FromMatmulAvailabilityError(s)
        \/ IntoAutotuneError(s)

SpecErr == InitErr /\ [][NextErr]_vars

\* the message each variant is to be reported with
ExpectedMessage(err) ==
    CASE err.variant = "Matmul" -> MatmulLaunchDebug(err.matmul)
      [] err.variant = "Groups" ->
            "Unable to launch matmul because groups must be one, is actually "
                \o ToString(err.groups) \o "\n"
      [] err.variant = "CubeCountTooLarge" ->
            "The cube count is larger than the max supported."
      [] err.variant = "Unknown" -> "Unknown"

\* C6: every launch error converts into AutotuneError::Unknown carrying
\* exactly its debug rendering, and two different launch errors never
\* convert into the same report.
C6_LosslessReport ==
    /\ \A s \in Slots :
          reports[s] # NoReport => reports[s] = AutotuneUnknown(ExpectedMessage(errs[s]))
    /\ \A s, t \in Slots :
          reports[s] # NoReport /\ reports[t] # NoReport /\ errs[s] # errs[t]
              => reports[s] # reports[t]

C6_Witness ==
    /\ errs[1] = ConvGroups(1)
    /\ errs[2] = ConvGroups(11)
    /\ reports[1] # NoReport
    /\ reports[2] # NoReport
    /\ reports[1] # reports[2]

====
